---- MODULE Spec2Model ----
(***************************************************************************)
(* Model of two adapters of the charting library:                          *)
(*   - the tree series model (src/src/chart/tree/TreeSeries.ts):           *)
(*     getInitialData, the wrapped getItemModel and formatTooltip;         *)
(*   - the visual stage handler of the lines series                        *)
(*     (src/unnamed/part_000): normalize, reset and its dataEach.          *)
(***************************************************************************)
EXTENDS Integers, Sequences, FiniteSets, TLC

VARIABLES
    option,      \* the TreeSeriesOption handed to getInitialData
    isExpand,    \* node.isExpand of every tree node, by dataIndex
    treePc,      \* "idle" | "constructed" | "ready" (getInitialData returned)
    ret,         \* what the call in progress returned to its caller
    lines,       \* the lines series: its option and its rows
    visual,      \* the series-level visuals of the lines data (data.setVisual)
    itemVisual,  \* the item-level visuals of the lines data, by row
    dataEachRet, \* the dataEach member of what reset returned
    done,        \* the rows the scheduler has passed to dataEach so far
    linesPc      \* "idle" | "created" | "reset"

vars == <<option, isExpand, treePc, ret, lines, visual, itemVisual,
          dataEachRet, done, linesPc>>

treeVars == <<option, isExpand, treePc, ret>>
linesVars == <<lines, visual, itemVisual, dataEachRet, done, linesPc>>

(***************************************************************************)
(* Bounds of the model.                                                    *)
(***************************************************************************)
\* the number of items of option.data, nested children included
MaxNodes == 3
\* the number of rows of the lines data
MaxRows == 2

(***************************************************************************)
(* JavaScript values.                                                      *)
(***************************************************************************)
Undefined == [t |-> "undefined"]
NaN == [t |-> "NaN"]
Num(n) == [t |-> "number", n |-> n]
Str(s) == [t |-> "string", s |-> s]
Arr(a) == [t |-> "array", a |-> a]
Bool(b) == [t |-> "boolean", b |-> b]
\* no entry under a key of a visual store
Absent == [t |-> "absent"]

\* ToBoolean of a value
Truthy(v) ==
    CASE v.t = "undefined" -> FALSE
      [] v.t = "NaN" -> FALSE
      [] v.t = "number" -> v.n # 0
      [] v.t = "string" -> v.s # ""
      [] v.t = "boolean" -> v.b
      [] OTHER -> TRUE

\* a && b
And(a, b) == IF Truthy(a) THEN b ELSE a

\* a[i] of an array, i counted from 0
At(a, i) == IF i + 1 \in DOMAIN a.a THEN a.a[i + 1] ELSE Undefined

(***************************************************************************)
(* The lines series and its visual stage handler.                          *)
(***************************************************************************)
VisualKeys == {"fromSymbol", "toSymbol", "fromSymbolSize", "toSymbolSize", "opacity"}
SymbolKeys == VisualKeys \ {"opacity"}

\* option values of the series: symbol, symbolSize, lineStyle.opacity
SeriesSymbols == {Str("circle"), Arr(<<Str("circle"), Str("arrow")>>)}
SeriesSymbolSizes == {Num(0), Num(5), Arr(<<Num(5), Num(9)>>)}
SeriesOpacities == {Undefined, Num(1)}

\* option values of one data item
ItemSymbols == {Undefined, Str("rect"), Arr(<<Str(""), Str("rect")>>)}
ItemSymbolSizes == {Num(0), Num(7), Arr(<<Num(7), Num(0)>>)}
ItemOpacities == {Undefined, Num(0)}

\* a row given as plain coordinates: the data item carries no option
PlainRow ==
    [isOption |-> FALSE, symbol |-> Undefined, symbolSize |-> Undefined,
     opacity |-> Undefined]

Rows ==
    {PlainRow} \cup [isOption : {TRUE}, symbol : ItemSymbols,
                     symbolSize : ItemSymbolSizes, opacity : ItemOpacities]

RowSeqs == UNION {[1..n -> Rows] : n \in 0..MaxRows}

LinesSeries ==
    [symbol : SeriesSymbols, symbolSize : SeriesSymbolSizes,
     opacity : SeriesOpacities, rows : RowSeqs]

RowIds == 1..Len(lines.rows)

NoVisual == [k \in VisualKeys |-> Absent]

\* the hasItemOption flag of the data: some data item is an option object
hasItemOption == \E i \in RowIds : lines.rows[i].isOption

\* normalize without the test for an array
normalizeAlwaysWraps(a) == Arr(<<a, a>>)

normalize(a) == IF a.t # "array" THEN Arr(<<a, a>>) ELSE a

\* seriesModel.get(opacityQuery)
SeriesOpacity == lines.opacity

\* itemModel.getShallow(key, true): the item's own value, the parent ignored
getShallow(idx, key) == lines.rows[idx][key]

\* the opacity read like the symbols, the parent model ignored
ItemOpacityShallow(idx) == lines.rows[idx].opacity

\* itemModel.get(opacityQuery): the item's own value unless it is null or
\* undefined, and then the value of the parent model, the series
ItemOpacity(idx) ==
    IF lines.rows[idx].opacity.t = "undefined" THEN SeriesOpacity
    ELSE lines.rows[idx].opacity

\* data.setItemVisual(idx, key, value)
setItemVisual(iv, idx, key, value) == [iv EXCEPT ![idx][key] = value]

\* the write guarded by v != null instead of by the truth of v
setIfNotNull(iv, idx, key, v) ==
    IF v.t \notin {"undefined", "null"} THEN setItemVisual(iv, idx, key, v)
    ELSE iv

\* v && data.setItemVisual(idx, key, v)
setIfTruthy(iv, idx, key, v) ==
    IF Truthy(v) THEN setItemVisual(iv, idx, key, v) ELSE iv

\* data.getItemVisual(idx, key): the item's entry, the series' when that is
\* null or undefined
getItemVisual(idx, key) ==
    IF itemVisual[idx][key].t \in {"absent", "undefined"} THEN visual[key]
    ELSE itemVisual[idx][key]

\* the five data.setVisual calls of reset
ResetVisual ==
    LET symbolType == normalize(lines.symbol)
        symbolSize == normalize(lines.symbolSize)
    IN  [k \in VisualKeys |->
            CASE k = "fromSymbol" -> And(symbolType, At(symbolType, 0))
              [] k = "toSymbol" -> And(symbolType, At(symbolType, 1))
              [] k = "fromSymbolSize" -> And(symbolSize, At(symbolSize, 0))
              [] k = "toSymbolSize" -> And(symbolSize, At(symbolSize, 1))
              [] OTHER -> SeriesOpacity]

\* reset returning dataEach whatever the flag says
ResetReturnAlways == "dataEach"

\* the dataEach member of the object reset returns
ResetReturn == IF hasItemOption THEN "dataEach" ELSE "null"

\* the body of dataEach for the row idx, on the item visuals iv
dataEach(iv, idx) ==
    LET symbolType == normalize(getShallow(idx, "symbol"))
        symbolSize == normalize(getShallow(idx, "symbolSize"))
        opacity == ItemOpacity(idx)
        v1 == setIfTruthy(iv, idx, "fromSymbol", At(symbolType, 0))
        v2 == setIfTruthy(v1, idx, "toSymbol", At(symbolType, 1))
        v3 == setIfTruthy(v2, idx, "fromSymbolSize", At(symbolSize, 0))
        v4 == setIfTruthy(v3, idx, "toSymbolSize", At(symbolSize, 1))
    IN  setItemVisual(v4, idx, "opacity", opacity)

LinesIdle ==
    /\ lines = [symbol |-> Undefined, symbolSize |-> Undefined,
                opacity |-> Undefined, rows |-> <<>>]
    /\ visual = NoVisual
    /\ itemVisual = <<>>
    /\ dataEachRet = "none"
    /\ done = 0
    /\ linesPc = "idle"

\* a lines series with its data, before the visual stage ran
LinesInit ==
    /\ lines \in LinesSeries
    /\ visual = NoVisual
    /\ itemVisual = [i \in RowIds |-> NoVisual]
    /\ dataEachRet = "none"
    /\ done = 0
    /\ linesPc = "created"

\* linesVisual.reset(seriesModel)
Reset ==
    /\ linesPc = "created"
    /\ visual' = ResetVisual
    /\ dataEachRet' = ResetReturn
    /\ linesPc' = "reset"
    /\ UNCHANGED <<lines, itemVisual, done>>
    /\ UNCHANGED treeVars

\* the scheduler passes the next row to the dataEach that reset returned
DataEachRow ==
    /\ linesPc = "reset"
    /\ dataEachRet = "dataEach"
    /\ done < Len(lines.rows)
    /\ itemVisual' = dataEach(itemVisual, done + 1)
    /\ done' = done + 1
    /\ UNCHANGED <<lines, visual, dataEachRet, linesPc>>
    /\ UNCHANGED treeVars

(***************************************************************************)
(* The tree series model.                                                  *)
(***************************************************************************)
\* strings are sequences of characters
Names == {<<"A">>, <<"B">>, <<"&">>}
Values == {NaN, Num(5)}
Collapseds == {Undefined, Bool(TRUE), Bool(FALSE)}
InitialTreeDepths == {Undefined, Num(-1), Num(0), Num(1), Num(2)}

\* one item of option.data or of a children array
Items == [name : Names, value : Values, collapsed : Collapseds]
PlainItems == [name : {<<"A">>}, value : {NaN}, collapsed : Collapseds]
OpenItems == [name : Names, value : Values, collapsed : {Undefined}]

RECURSIVE IsAncestorOrSelf(_, _, _)
\* a is i or an ancestor of i under the parent links p; 0 is the root
IsAncestorOrSelf(p, a, i) ==
    IF a = i THEN TRUE
    ELSE IF i = 0 THEN FALSE
    ELSE IsAncestorOrSelf(p, a, p[i])

\* Tree.createTree numbers the nodes in the order it meets them, depth
\* first: the parent of node i is node i - 1 or one of its ancestors
ParentLinks(n) ==
    {p \in [1..n -> 0..n] :
        \A i \in 1..n : p[i] < i /\ IsAncestorOrSelf(p, p[i], i - 1)}

Nodes == 0..Len(option.items)
root == 0
\* no node: null or undefined
NoNode == -1

parentNode(i) == IF i = root THEN NoNode ELSE option.parent[i]
children(i) == {j \in Nodes : j # root /\ option.parent[j] = i}
\* tree.root.children[0]
FirstChild(i) ==
    IF children(i) = {} THEN NoNode
    ELSE CHOOSE j \in children(i) : \A k \in children(i) : j <= k

RECURSIVE depth(_)
depth(i) == IF i = root THEN 0 ELSE 1 + depth(parentNode(i))

\* node.name; the root's backing item takes option.name
name(i) == IF i = root THEN option.name ELSE option.items[i].name
\* node.getValue(); the root's backing item has no value
getValue(i) == IF i = root THEN NaN ELSE option.items[i].value
\* getRawDataItem(dataIndex).collapsed; the root's item is {name, children}
collapsed(i) == IF i = root THEN Undefined ELSE option.items[i].collapsed

RECURSIVE treeDepthLoop(_, _)
\* the first eachNode pass, from node i on, the running maximum being acc
treeDepthLoop(i, acc) ==
    IF i \notin Nodes THEN acc
    ELSE treeDepthLoop(i + 1, IF depth(i) > acc THEN depth(i) ELSE acc)

treeDepth == treeDepthLoop(root, 0)

\* v >= 0
GreaterEqualZero(v) == v.t = "number" /\ v.n >= 0

\* the effective depth taken without a look at expandAndCollapse
expandTreeDepthIgnoresFlag ==
    IF GreaterEqualZero(option.initialTreeDepth)
    THEN option.initialTreeDepth.n
    ELSE treeDepth

expandTreeDepth ==
    IF option.expandAndCollapse /\ GreaterEqualZero(option.initialTreeDepth)
    THEN option.initialTreeDepth.n
    ELSE treeDepth

\* collapsed tested for identity with true instead of being coerced
InitialExpandIdentity(i) ==
    IF collapsed(i) = Bool(TRUE) THEN FALSE
    ELSE depth(i) <= expandTreeDepth

\* the depth compared with < instead of <=
InitialExpandStrict(i) ==
    IF collapsed(i).t \notin {"undefined", "null"}
    THEN ~Truthy(collapsed(i))
    ELSE depth(i) < expandTreeDepth

\* the value the second eachNode pass gives node.isExpand
InitialExpand(i) ==
    IF collapsed(i).t \notin {"undefined", "null"}
    THEN ~Truthy(collapsed(i))
    ELSE depth(i) <= expandTreeDepth

\* the model List.getItemModel builds anew on every call, the series model
\* being its parent
getItemModel(idx) == [parentModel |-> "seriesModel"]

\* the interceptor without the test of node.isExpand
wrappedGetItemModelLeafOnly(idx) ==
    IF children(idx) = {}
    THEN [getItemModel(idx) EXCEPT !.parentModel = "leavesModel"]
    ELSE getItemModel(idx)

\* the interceptor that beforeLink wraps around getItemModel
wrappedGetItemModel(idx) ==
    LET model == getItemModel(idx)
        leavesModel == "leavesModel"
    IN  IF children(idx) = {} \/ ~isExpand[idx]
        THEN [model EXCEPT !.parentModel = leavesModel]
        ELSE model

Digits == <<"0", "1", "2", "3", "4", "5", "6", "7", "8", "9">>
RECURSIVE NumberToString(_)
\* the decimal digits of a natural number
NumberToString(n) ==
    IF n < 10 THEN <<Digits[n + 1]>>
    ELSE NumberToString(n \div 10) \o <<Digits[(n % 10) + 1]>>

RECURSIVE encodeHTML(_)
encodeHTML(str) ==
    IF str = <<>> THEN <<>>
    ELSE (CASE Head(str) = "&" -> <<"&", "a", "m", "p", ";">>
            [] Head(str) = "<" -> <<"&", "l", "t", ";">>
            [] Head(str) = ">" -> <<"&", "g", "t", ";">>
            [] OTHER -> <<Head(str)>>) \o encodeHTML(Tail(str))

\* the text formatTooltip appends for the value
ValueText(value) ==
    IF value.t \in {"NaN", "undefined", "null"} THEN <<>>
    ELSE <<" ", ":", " ">> \o NumberToString(value.n)

TypeError == [threw |-> TRUE, text |-> <<>>]

RECURSIVE parentWalk(_, _, _)
\* the while loop of formatTooltip; reading .name of a missing parentNode
\* throws a TypeError
parentWalk(node, realRoot, str) ==
    IF node # NoNode /\ node # realRoot
    THEN IF parentNode(node) = NoNode THEN TypeError
         ELSE parentWalk(parentNode(node), realRoot,
                         name(parentNode(node)) \o <<".">> \o str)
    ELSE [threw |-> FALSE, text |-> str]

formatTooltip(dataIndex) ==
    LET realRoot == FirstChild(root)
        node == dataIndex
        value == getValue(node)
        walked == parentWalk(node, realRoot, name(node))
    IN  IF walked.threw THEN TypeError
        ELSE [threw |-> FALSE,
              text |-> encodeHTML(walked.text \o ValueText(value))]

NoRet ==
    [op |-> "none", idx |-> NoNode, threw |-> FALSE, text |-> <<>>,
     parentModel |-> "none"]

TreeIdle ==
    /\ option = [name |-> <<>>, parent |-> <<>>, items |-> <<>>,
                 expandAndCollapse |-> TRUE, initialTreeDepth |-> Undefined]
    /\ isExpand = [i \in {root} |-> FALSE]
    /\ treePc = "idle"
    /\ ret = NoRet

\* a series whose option draws its items from the set its
TreeInit(its, eacs, depths) ==
    /\ \E n \in 0..MaxNodes :
         option \in [name : {<<"S">>}, parent : ParentLinks(n),
                     items : [1..n -> its], expandAndCollapse : eacs,
                     initialTreeDepth : depths]
    /\ isExpand = [i \in Nodes |-> FALSE]
    /\ treePc = "constructed"
    /\ ret = NoRet

\* TreeSeriesModel.getInitialData(option)
GetInitialData ==
    /\ treePc = "constructed"
    /\ isExpand' = [i \in Nodes |-> InitialExpand(i)]
    /\ treePc' = "ready"
    /\ ret' = NoRet
    /\ UNCHANGED option
    /\ UNCHANGED linesVars

\* a click on the node i expands or collapses it; the nodes take clicks only
\* when the expand and collapse interaction is enabled
ToggleExpand(i) ==
    /\ treePc = "ready"
    /\ option.expandAndCollapse
    /\ isExpand' = [isExpand EXCEPT ![i] = ~isExpand[i]]
    /\ ret' = NoRet
    /\ UNCHANGED <<option, treePc>>
    /\ UNCHANGED linesVars

\* data.getItemModel(idx), the method as wrapped by beforeLink
GetItemModel(idx) ==
    /\ treePc = "ready"
    /\ ret' = [NoRet EXCEPT !.op = "getItemModel", !.idx = idx,
                 !.parentModel = wrappedGetItemModel(idx).parentModel]
    /\ UNCHANGED <<option, isExpand, treePc>>
    /\ UNCHANGED linesVars

\* seriesModel.formatTooltip(dataIndex)
FormatTooltip(dataIndex) ==
    /\ treePc = "ready"
    /\ LET r == formatTooltip(dataIndex)
       IN  ret' = [NoRet EXCEPT !.op = "formatTooltip", !.idx = dataIndex,
                     !.threw = r.threw, !.text = r.text]
    /\ UNCHANGED <<option, isExpand, treePc>>
    /\ UNCHANGED linesVars

(***************************************************************************)
(* Specifications.                                                         *)
(***************************************************************************)
\* the initial expansion state, later clicks and the item models
ExpandInit ==
    /\ TreeInit(PlainItems, BOOLEAN, InitialTreeDepths)
    /\ LinesIdle

ExpandNext ==
    \/ GetInitialData
    \/ \E i \in Nodes : ToggleExpand(i)
    \/ \E i \in Nodes : GetItemModel(i)

SpecExpand == ExpandInit /\ [][ExpandNext]_vars

\* the tooltip of every row of every tree
TooltipInit ==
    /\ TreeInit(OpenItems, {TRUE}, {Undefined})
    /\ LinesIdle

TooltipNext ==
    \/ GetInitialData
    \/ \E i \in Nodes : FormatTooltip(i)

SpecTooltip == TooltipInit /\ [][TooltipNext]_vars

\* the visual stage of the lines series
VisualInit ==
    /\ TreeIdle
    /\ LinesInit

VisualNext ==
    \/ Reset
    \/ DataEachRow

SpecLines == VisualInit /\ [][VisualNext]_vars

(***************************************************************************)
(* Properties of the tree series model.                                    *)
(***************************************************************************)
\* the step in which getInitialData returns
InitialDataStep == treePc = "constructed" /\ treePc' = "ready"

HasCollapsed(i) == collapsed(i).t = "boolean"

\* C1: after getInitialData every node whose option item has a non-null
\* collapsed field has isExpand equal to the negation of that field, at any
\* depth and under any expandAndCollapse and initialTreeDepth.
C1_ExplicitCollapsed ==
    [][InitialDataStep =>
        \A i \in Nodes :
            HasCollapsed(i) => (isExpand'[i] <=> ~collapsed(i).b)]_vars

\* a collapsed node above the initial depth and an open one below it
C1_Witness ==
    /\ treePc = "ready"
    /\ option.expandAndCollapse
    /\ option.initialTreeDepth = Num(1)
    /\ \E i, j \in Nodes :
         /\ collapsed(i) = Bool(TRUE) /\ depth(i) = 1 /\ ~isExpand[i]
         /\ collapsed(j) = Bool(FALSE) /\ depth(j) = 2 /\ isExpand[j]

\* C2: after getInitialData a node whose item has no collapsed field is
\* expanded when expandAndCollapse is off or initialTreeDepth is negative or
\* absent, and otherwise exactly when its depth is at most initialTreeDepth,
\* the root having depth 0.
C2_DefaultExpand ==
    [][InitialDataStep =>
        \A i \in Nodes :
            ~HasCollapsed(i) =>
                IF \/ ~option.expandAndCollapse
                   \/ option.initialTreeDepth.t = "undefined"
                   \/ option.initialTreeDepth.n < 0
                THEN isExpand'[i]
                ELSE isExpand'[i] <=> depth(i) <= option.initialTreeDepth.n]_vars

\* the initial depth 1 cuts a tree of depth 2
C2_Witness ==
    /\ treePc = "ready"
    /\ option.expandAndCollapse
    /\ option.initialTreeDepth = Num(1)
    /\ \E i, j \in Nodes :
         /\ ~HasCollapsed(i) /\ depth(i) = 2 /\ ~isExpand[i]
         /\ ~HasCollapsed(j) /\ depth(j) = 1 /\ isExpand[j]
    /\ isExpand[root]

\* C10: after getInitialData the synthetic root is expanded, whatever the
\* option says.
C10_RootExpanded == [][InitialDataStep => isExpand'[root]]_vars

\* the root open over a collapsed first level, the initial depth being 0
C10_Witness ==
    /\ treePc = "ready"
    /\ option.expandAndCollapse
    /\ option.initialTreeDepth = Num(0)
    /\ isExpand[root]
    /\ \E i \in Nodes : depth(i) = 1 /\ collapsed(i) = Bool(TRUE) /\ ~isExpand[i]
    /\ \E i \in Nodes : depth(i) = 1 /\ ~HasCollapsed(i) /\ ~isExpand[i]

\* C4: the model the wrapped getItemModel returns has the leaves model as
\* its parent exactly when the node has no children or is collapsed at the
\* time of the call; otherwise its parent is the one it was built with.
C4_LeavesModel ==
    ret.op = "getItemModel" =>
        /\ ret.parentModel = "leavesModel"
              <=> (children(ret.idx) = {} \/ ~isExpand[ret.idx])
        /\ ret.parentModel \in {"leavesModel", "seriesModel"}

\* a node with children, collapsed by a click after it started expanded
C4_Witness ==
    /\ ret.op = "getItemModel"
    /\ children(ret.idx) # {}
    /\ InitialExpand(ret.idx)
    /\ ~isExpand[ret.idx]
    /\ ret.parentModel = "leavesModel"

RECURSIVE NamePath(_)
\* the names from the top-level item down to the node i, joined by "."
NamePath(i) ==
    IF parentNode(i) = root THEN name(i)
    ELSE NamePath(parentNode(i)) \o <<".">> \o name(i)

\* C3: for every node below the synthetic root formatTooltip returns the
\* names from its top-level ancestor down to it, joined by ".", followed by
\* " : " and the value when the value is a number.
C3_NamePath ==
    (ret.op = "formatTooltip" /\ ret.idx # root) =>
        /\ ~ret.threw
        /\ ret.text = encodeHTML(NamePath(ret.idx) \o ValueText(getValue(ret.idx)))

\* C9: for the synthetic root formatTooltip returns the root's own name and
\* reads no parent of the root.
C9_RootName ==
    (ret.op = "formatTooltip" /\ ret.idx = root) =>
        /\ ~ret.threw
        /\ ret.text = encodeHTML(name(root))

(***************************************************************************)
(* Properties of the lines visual stage.                                   *)
(***************************************************************************)
\* the value the option v gives to the end of the line a key is about
EndValue(v, key) ==
    IF v.t = "array"
    THEN IF key \in {"fromSymbol", "fromSymbolSize"} THEN v.a[1] ELSE v.a[2]
    ELSE v

\* the row's own option for a symbol key
OwnOption(idx, key) ==
    IF key \in {"fromSymbol", "toSymbol"} THEN lines.rows[idx].symbol
    ELSE lines.rows[idx].symbolSize

Written(idx, key) == itemVisual[idx][key] # Absent

\* C5: dataEach writes an item visual for fromSymbol, toSymbol,
\* fromSymbolSize, toSymbolSize exactly when the row's own value for that end
\* is truthy; for a falsy one the series-level visual stays in effect.
C5_TruthyOverride ==
    \A idx \in 1..done : \A key \in SymbolKeys :
        LET own == EndValue(OwnOption(idx, key), key)
        IN  /\ Written(idx, key) <=> Truthy(own)
            /\ Truthy(own) => itemVisual[idx][key] = own
            /\ ~Truthy(own) => getItemVisual(idx, key) = visual[key]

\* a row whose symbolSize is 0 keeps the series' size 5
C5_Witness ==
    /\ done >= 1
    /\ lines.rows[done].symbolSize = Num(0)
    /\ lines.symbolSize = Num(5)
    /\ ~Written(done, "fromSymbolSize")
    /\ getItemVisual(done, "fromSymbolSize") = Num(5)
    /\ Written(done, "toSymbol")

\* C6: reset returns a dataEach exactly when the data has item options; with
\* none, no item visual is ever written and the five series visuals exist.
C6_DataEachOnlyWithItemOption ==
    linesPc = "reset" =>
        /\ dataEachRet = "dataEach" <=> hasItemOption
        /\ (\A i \in RowIds : ~lines.rows[i].isOption) =>
              /\ dataEachRet = "null"
              /\ \A i \in RowIds : \A key \in VisualKeys : ~Written(i, key)
        /\ \A key \in VisualKeys : visual[key] # Absent

\* a reset over rows none of which carries an option
C6_Witness ==
    /\ linesPc = "reset"
    /\ Len(lines.rows) = MaxRows
    /\ \A i \in RowIds : ~lines.rows[i].isOption
    /\ dataEachRet = "null"

\* C7: after reset a scalar symbol or symbolSize is the visual of both ends,
\* and a pair gives its first element to "from" and its second to "to".
C7_SeriesVisual ==
    linesPc = "reset" =>
        /\ visual["fromSymbol"] = EndValue(lines.symbol, "fromSymbol")
        /\ visual["toSymbol"] = EndValue(lines.symbol, "toSymbol")
        /\ visual["fromSymbolSize"] = EndValue(lines.symbolSize, "fromSymbolSize")
        /\ visual["toSymbolSize"] = EndValue(lines.symbolSize, "toSymbolSize")

\* a pair of symbols and a scalar size
C7_Witness ==
    /\ linesPc = "reset"
    /\ lines.symbol = Arr(<<Str("circle"), Str("arrow")>>)
    /\ visual["fromSymbol"] = Str("circle")
    /\ visual["toSymbol"] = Str("arrow")
    /\ lines.symbolSize = Num(5)
    /\ visual["fromSymbolSize"] = Num(5)
    /\ visual["toSymbolSize"] = Num(5)

\* the row's own value for a key, opacity included
OwnValue(idx, key) ==
    IF key = "opacity" THEN lines.rows[idx].opacity
    ELSE EndValue(OwnOption(idx, key), key)

\* C8 as stated: for each of the five attributes a per-item value is written
\* only if the row's own value is truthy or defined; a row that sets no
\* lineStyle.opacity gets no item-level opacity entry.
C8_OnlyIfSet ==
    \A idx \in 1..done : \A key \in VisualKeys :
        Written(idx, key) =>
            IF key = "opacity" THEN OwnValue(idx, key).t # "undefined"
            ELSE Truthy(OwnValue(idx, key))

\* C8 as amended: the four symbol attributes are written only if the row's
\* own value is truthy; the opacity entry is written for every row, with the
\* row's own lineStyle.opacity when it is defined and the series' otherwise.
C8_OpacityAlwaysWritten ==
    \A idx \in 1..done :
        /\ \A key \in SymbolKeys : Written(idx, key) => Truthy(OwnValue(idx, key))
        /\ Written(idx, "opacity")
        /\ itemVisual[idx]["opacity"] =
              IF OwnValue(idx, "opacity").t = "undefined" THEN lines.opacity
              ELSE OwnValue(idx, "opacity")
        /\ OwnValue(idx, "opacity").t = "undefined" =>
              getItemVisual(idx, "opacity") = visual["opacity"]

\* a row without an option got the series' opacity as its own entry
C8_Witness ==
    /\ done >= 1
    /\ ~lines.rows[done].isOption
    /\ lines.opacity = Num(1)
    /\ itemVisual[done]["opacity"] = Num(1)
    /\ \A key \in SymbolKeys : ~Written(done, key)

====
